---- MODULE Spec2Model ----
(***************************************************************************)
(* construct_factor_portfolio (src/src/portfolio_construction.py) as a     *)
(* state machine: one action per stage of the function, in program order.  *)
(* Tables are sets of row records; a row of the input table keeps its      *)
(* position in the file as permno.  Market equity, returns and             *)
(* characteristics are integers (fixed-point units); an aggregate return   *)
(* is an exact fraction [num, den].  The later sections add validate_factor *)
(* (src/src/validation.py), the ingestion step's column list                *)
(* (src/src/data_ingestion.py) and the batch loops of src/src/runner.py and *)
(* src/main.py around the call.                                             *)
(***************************************************************************)
EXTENDS Integers, Sequences, FiniteSets

VARIABLES
    table,                  \* the parquet file at char_data_path: a sequence of rows
    characteristic,         \* argument: the sort characteristic's column name
    weighting_scheme,       \* argument
    long_short_direction,   \* argument
    pc,                     \* position in construct_factor_portfolio
    char_df,                \* the working frame (Unset before read_parquet)
    crsp_ret_cutoffs,       \* per-month return cutoffs of the CRSP rows
    size_breakpoints,       \* per-month me_p20 / me_p80
    char_breakpoints,       \* per-month char_p33 / char_p67
    weighting_expr,         \* the aggregation expression chosen at lines 89-99
    portfolio_returns,      \* one row per (eom, portfolio)
    portfolio_returns_wide, \* the pivoted and filtered frame
    factor_returns,         \* the returned frame
    raised,                 \* the exception that ended the call, or "none"
    file_columns,           \* the column names of the parquet file
    caller,                 \* who calls: "direct", "validate", "main" or "runner"
    combinations,           \* the batch's (scheme, factor) pairs, in loop order
    todo,                   \* the combinations the batch loop has yet to start
    finished,               \* the combinations constructed, written and validated
    benchmark,              \* the benchmark file: its rows, or "unreadable"
    validation_df           \* the joined frame of validate_factor

vars == <<table, characteristic, weighting_scheme, long_short_direction, pc,
          char_df, crsp_ret_cutoffs, size_breakpoints, char_breakpoints,
          weighting_expr, portfolio_returns, portfolio_returns_wide,
          factor_returns, raised, file_columns, caller, combinations, todo,
          finished, benchmark, validation_df>>

\* What a call of construct_factor_portfolio leaves alone: the file's schema
\* and the state of the batch around the call.
batch_vars == <<file_columns, caller, combinations, todo, finished, benchmark,
                validation_df>>

\* A polars null, in a column of integers.
NULL == -999

\* The frame / table that does not exist yet.
Unset == {[unset |-> TRUE]}

\* ------------------------------------------------------------------ bounds
MaxLabelRows == 3
MaxWinsorRows == 3
MaxWeightRows == 4
MaxBreadthRows == 11

\* ------------------------------------------------------------- arithmetic
RECURSIVE SumOver(_, _)
\* Sum of f[p] over p \in S.
SumOver(S, f) ==
    IF S = {} THEN 0
    ELSE LET p == CHOOSE x \in S : TRUE IN f[p] + SumOver(S \ {p}, f)

\* A fraction, kept unreduced; den > 0.
Frac(n, d) == [num |-> n, den |-> d]
FracEq(a, b) == a.num * b.den = b.num * a.den
FracSub(a, b) == Frac(a.num * b.den - b.num * a.den, a.den * b.den)
FracNeg(a) == Frac(0 - a.num, a.den)

\* -------------------------------------------------------------- quantiles
\* The column col of frame S as a function of permno.
Column(S, col) ==
    [p \in {r.permno : r \in S} |-> (CHOOSE r \in S : r.permno = p)[col]]

\* The value of the sample's row k (from 0) in file order: no sort.
OrderStatInFileOrder(f, k) ==
    f[CHOOSE p \in DOMAIN f : Cardinality({x \in DOMAIN f : x < p}) = k]

\* The k-th smallest value (k from 0) of the sample f.
OrderStat(f, k) ==
    CHOOSE v \in {f[p] : p \in DOMAIN f} :
        /\ Cardinality({p \in DOMAIN f : f[p] < v}) <= k
        /\ k < Cardinality({p \in DOMAIN f : f[p] <= v})

\* Expr.quantile is called without an interpolation argument, so polars uses
\* its default, 'nearest': the order statistic at index round((n - 1) * q),
\* halves away from zero.
NearestIdx(n, q) == ((n - 1) * q.num * 2 + q.den) \div (2 * q.den)

\* Expr.quantile(q) with its default interpolation, over a non-empty group.
Quantile(f, q) == OrderStat(f, NearestIdx(Cardinality(DOMAIN f), q))

Q001 == Frac(1, 1000)
Q999 == Frac(999, 1000)
Q20 == Frac(1, 5)
Q80 == Frac(4, 5)
Q33 == Frac(1, 3)
Q67 == Frac(2, 3)

\* Expr.clip(lower_bound, upper_bound) on one value; a null bound does not bind.
Clip(v, lo, hi) ==
    IF lo # NULL /\ v < lo THEN lo
    ELSE IF hi # NULL /\ v > hi THEN hi
    ELSE v

Months(S) == {r.eom : r \in S}
OfMonth(S, m) == {r \in S : r.eom = m}

\* ------------------------------------------------------------------ input
\* A row of the input file, without its position.
Row(eom, exch, src, sg, me, ret, ch) ==
    [eom |-> eom, crsp_exchcd |-> exch, source_crsp |-> src, size_grp |-> sg,
     me |-> me, ret_exc_lead1m |-> ret, char |-> ch]

RECURSIVE SortedIdxSeqs(_, _)
\* The non-decreasing sequences over 1..d of length at most n: one file per
\* multiset of rows.
SortedIdxSeqs(n, d) ==
    IF n = 0 THEN {<<>>}
    ELSE LET P == SortedIdxSeqs(n - 1, d) IN
         P \cup UNION { { Append(s, k) :
                            k \in (IF s = <<>> THEN 1 ELSE s[Len(s)]) .. d } :
                        s \in {t \in P : Len(t) = n - 1} }

Tables(types, n) ==
    { [i \in 1..Len(s) |-> types[s[i]]] : s \in SortedIdxSeqs(n, Len(types)) }

\* Rows that differ in month, exchange, size and characteristic (nullable
\* columns included); every row is CRSP-sourced with a zero return.
LabelRows ==
    LET full == { Row(m, em[1], 1, 1, em[2], 0, c) :
                    m \in {1, 2}, em \in {<<1, 1>>, <<1, 2>>, <<2, 2>>},
                    c \in {-1, 1, 2, 3} }
        nulls == { Row(1, 1, 1, 1, 2, 0, NULL), Row(1, 1, 1, 1, NULL, 0, 2),
                   Row(1, 1, 1, NULL, 2, 0, 2), Row(1, 1, 1, 1, 2, NULL, 2) }
    IN full \cup nulls

\* Rows that differ in month, source flag and return; a micro-cap with a
\* high characteristic, a larger firm with a low one, and a firm of another
\* exchange.
WinsorRows ==
    { Row(m, emc[1], src, 1, emc[2], ret, emc[3]) :
        m \in {1, 2}, src \in {0, 1}, ret \in {-3, 0, 4},
        emc \in {<<1, 1, 3>>, <<1, 2, 1>>, <<2, 2, 1>>} }
      \cup { Row(1, 1, 1, 1, 2, 9, NULL) }

\* Rows of one month that differ in market equity, return and characteristic;
\* the firm of the other exchange is larger than every reference firm.
WeightRows ==
    { Row(1, em[1], 1, 1, em[2], ret, c) :
        em \in {<<1, 1>>, <<1, 2>>, <<2, 3>>}, ret \in {-1, 2}, c \in {1, 3} }

\* Enough rows of one month to fill both extreme portfolios: larger firms
\* with a low, middle and high characteristic, a micro-cap with a high one, a
\* firm of another exchange, and a firm of a month without reference firms.
BreadthRows ==
    << Row(1, 1, 1, 1, 2, 3, 1), Row(1, 1, 1, 1, 2, 0, 2),
       Row(1, 1, 1, 1, 2, 5, 3), Row(1, 1, 1, 1, 1, 2, 3),
       Row(1, 2, 1, 1, 3, 4, 1), Row(2, 2, 1, 1, 2, 1, 2) >>

MaxBeMeRows == 3
\* Reference-exchange rows of one month that differ in source flag, return
\* and book-to-market: a micro-cap with a high value, larger firms with a
\* low, a zero and a negative one.
BeMeRows ==
    { Row(1, 1, src, 1, mc[1], ret, mc[2]) :
        src \in {0, 1}, ret \in {-3, 0, 4},
        mc \in {<<1, 3>>, <<2, 1>>, <<2, 0>>, <<2, -1>>} }

RECURSIVE SetToSeq(_)
SetToSeq(S) ==
    IF S = {} THEN <<>>
    ELSE LET x == CHOOSE y \in S : TRUE IN <<x>> \o SetToSeq(S \ {x})

Characteristics == {"be_me", "ret_12_1"}
Schemes == {"ew", "vw", "vw_cap", "mw"}
Directions == {"long", "short", "high"}

\* Lines 20-22: the columns construct_factor_portfolio reads.
base_cols ==
    {"eom", "permno", "crsp_exchcd", "source_crsp", "size_grp", "me",
     "ret_exc_lead1m"}

required_cols == base_cols \cup {characteristic}

\* A characteristics file that carries every column the function reads, for
\* each of the characteristics.
CompleteColumns ==
    base_cols \cup {"id"} \cup Characteristics
        \cup {"me", "be_me", "ope_be", "at_gr1", "ret_12_1", "ret_1_0"}

\* A direct call of construct_factor_portfolio on a complete file.
InitCall(tables, chars, schemes, dirs) ==
    /\ file_columns = CompleteColumns
    /\ caller = "direct"
    /\ combinations = <<>>
    /\ todo = <<>>
    /\ finished = {}
    /\ benchmark = Unset
    /\ validation_df = Unset
    /\ table \in tables
    /\ characteristic \in chars
    /\ weighting_scheme \in schemes
    /\ long_short_direction \in dirs
    /\ pc = "read_parquet"
    /\ char_df = Unset
    /\ crsp_ret_cutoffs = Unset
    /\ size_breakpoints = Unset
    /\ char_breakpoints = Unset
    /\ weighting_expr = "unset"
    /\ portfolio_returns = Unset
    /\ portfolio_returns_wide = Unset
    /\ factor_returns = Unset
    /\ raised = "none"

InitLabel ==
    InitCall(Tables(SetToSeq(LabelRows), MaxLabelRows), Characteristics,
             {"ew", "mw"}, {"long"})

InitWinsor ==
    InitCall(Tables(SetToSeq(WinsorRows), MaxWinsorRows), {"ret_12_1"},
             {"ew", "mw"}, {"long"})

InitWeight ==
    InitCall(Tables(SetToSeq(WeightRows), MaxWeightRows), {"ret_12_1"},
             Schemes, {"long"})

InitBeMe ==
    InitCall(Tables(SetToSeq(BeMeRows), MaxBeMeRows), {"be_me"},
             {"ew", "mw"}, {"long"})

InitBreadth ==
    InitCall(Tables(BreadthRows, MaxBreadthRows), {"ret_12_1"},
             {"ew", "vw_cap", "mw"}, Directions)

\* ---------------------------------------------------------------- actions
\* Lines 20-27: read the required columns, drop rows with a null in the
\* characteristic, me, size_grp or ret_exc_lead1m.
ReadFrame(tbl) ==
    { [permno |-> i, eom |-> tbl[i].eom,
       crsp_exchcd |-> tbl[i].crsp_exchcd,
       source_crsp |-> tbl[i].source_crsp,
       size_grp |-> tbl[i].size_grp, me |-> tbl[i].me,
       ret_exc_lead1m |-> tbl[i].ret_exc_lead1m,
       char |-> tbl[i].char,
       me_p20 |-> NULL, me_p80 |-> NULL,
       char_p33 |-> NULL, char_p67 |-> NULL, portfolio |-> "unset"] :
      i \in { j \in 1..Len(tbl) :
                /\ tbl[j].char # NULL
                /\ tbl[j].me # NULL
                /\ tbl[j].size_grp # NULL
                /\ tbl[j].ret_exc_lead1m # NULL } }

ReadParquet ==
    /\ pc = "read_parquet"
    /\ required_cols \subseteq file_columns
    /\ char_df' = ReadFrame(table)
    /\ pc' = "winsorize"
    /\ UNCHANGED batch_vars
    /\ UNCHANGED <<table, characteristic, weighting_scheme,
                   long_short_direction, crsp_ret_cutoffs, size_breakpoints,
                   char_breakpoints, weighting_expr, portfolio_returns,
                   portfolio_returns_wide, factor_returns, raised>>

\* The cutoffs taken over the rows of every source.
CrspRetCutoffsAllSources(df) ==
    { [eom |-> m,
       ret_p001 |-> Quantile(Column(OfMonth(df, m), "ret_exc_lead1m"), Q001),
       ret_p999 |-> Quantile(Column(OfMonth(df, m), "ret_exc_lead1m"), Q999)] :
      m \in Months(df) }

\* Lines 33-36: the cutoffs of each month that has a CRSP row.
CrspRetCutoffs(df) ==
    LET crsp == {r \in df : r.source_crsp = 1} IN
    { [eom |-> m,
       ret_p001 |-> Quantile(Column(OfMonth(crsp, m), "ret_exc_lead1m"), Q001),
       ret_p999 |-> Quantile(Column(OfMonth(crsp, m), "ret_exc_lead1m"), Q999)] :
      m \in Months(crsp) }

\* The value of column col that a left join on eom gives a row of month m.
Joined(bp, m, col) ==
    IF \E b \in bp : b.eom = m
    THEN (CHOOSE b \in bp : b.eom = m)[col]
    ELSE NULL

\* Lines 39-52: join the cutoffs, clip the rows with source_crsp == 0.
WinsorizedRow(r, cutoffs) ==
    IF r.source_crsp = 0
    THEN [r EXCEPT !.ret_exc_lead1m =
              Clip(r.ret_exc_lead1m, Joined(cutoffs, r.eom, "ret_p001"),
                   Joined(cutoffs, r.eom, "ret_p999"))]
    ELSE r

Winsorize ==
    /\ pc = "winsorize"
    /\ crsp_ret_cutoffs' = CrspRetCutoffs(char_df)
    /\ char_df' = { WinsorizedRow(r, CrspRetCutoffs(char_df)) : r \in char_df }
    /\ pc' = "filter_be_me"
    /\ UNCHANGED batch_vars
    /\ UNCHANGED <<table, characteristic, weighting_scheme,
                   long_short_direction, size_breakpoints, char_breakpoints,
                   weighting_expr, portfolio_returns, portfolio_returns_wide,
                   factor_returns, raised>>

\* Lines 55-56.
BeMeFiltered(df, ch) ==
    IF ch = "be_me" THEN {r \in df : r.char > 0} ELSE df

FilterBeMe ==
    /\ pc = "filter_be_me"
    /\ char_df' = BeMeFiltered(char_df, characteristic)
    /\ pc' = "size_breakpoints"
    /\ UNCHANGED batch_vars
    /\ UNCHANGED <<table, characteristic, weighting_scheme,
                   long_short_direction, crsp_ret_cutoffs, size_breakpoints,
                   char_breakpoints, weighting_expr, portfolio_returns,
                   portfolio_returns_wide, factor_returns, raised>>

\* The reference sample taken over the firms of every exchange.
NyseStocksAnyExchange(df) == df

\* Lines 58-63.
NyseStocks(df) == {r \in df : r.crsp_exchcd = 1}

SizeBreakpointsOf(df) ==
    LET nyse_stocks == NyseStocks(df) IN
    { [eom |-> m,
       me_p20 |-> Quantile(Column(OfMonth(nyse_stocks, m), "me"), Q20),
       me_p80 |-> Quantile(Column(OfMonth(nyse_stocks, m), "me"), Q80)] :
      m \in Months(nyse_stocks) }

\* Lines 65-68: left join, then drop the rows with a null me_p20.
JoinSize(df, bp) ==
    { r \in { [x EXCEPT !.me_p20 = Joined(bp, x.eom, "me_p20"),
                        !.me_p80 = Joined(bp, x.eom, "me_p80")] : x \in df } :
      r.me_p20 # NULL }

SizeBreakpoints ==
    /\ pc = "size_breakpoints"
    /\ size_breakpoints' = SizeBreakpointsOf(char_df)
    /\ char_df' = JoinSize(char_df, SizeBreakpointsOf(char_df))
    /\ pc' = "char_breakpoints"
    /\ UNCHANGED batch_vars
    /\ UNCHANGED <<table, characteristic, weighting_scheme,
                   long_short_direction, crsp_ret_cutoffs, char_breakpoints,
                   weighting_expr, portfolio_returns, portfolio_returns_wide,
                   factor_returns, raised>>

\* The sample that keeps the firms at the 20th percentile.
NonMicroCapsInclusive(df) == {r \in df : r.me >= r.me_p20}

\* Line 70.
NonMicroCaps(df) == {r \in df : r.me > r.me_p20}

\* The two quantile levels exchanged.
CharBreakpointsSwapped(df) ==
    LET non_micro_caps == NonMicroCaps(df) IN
    { [eom |-> m,
       char_p33 |-> Quantile(Column(OfMonth(non_micro_caps, m), "char"), Q67),
       char_p67 |-> Quantile(Column(OfMonth(non_micro_caps, m), "char"), Q33)] :
      m \in Months(non_micro_caps) }

\* Lines 71-74.
CharBreakpointsOf(df) ==
    LET non_micro_caps == NonMicroCaps(df) IN
    { [eom |-> m,
       char_p33 |-> Quantile(Column(OfMonth(non_micro_caps, m), "char"), Q33),
       char_p67 |-> Quantile(Column(OfMonth(non_micro_caps, m), "char"), Q67)] :
      m \in Months(non_micro_caps) }

\* Lines 75-78.
JoinChar(df, bp) ==
    { r \in { [x EXCEPT !.char_p33 = Joined(bp, x.eom, "char_p33"),
                        !.char_p67 = Joined(bp, x.eom, "char_p67")] : x \in df } :
      r.char_p33 # NULL }

CharBreakpoints ==
    /\ pc = "char_breakpoints"
    /\ char_breakpoints' = CharBreakpointsOf(char_df)
    /\ char_df' = JoinChar(char_df, CharBreakpointsOf(char_df))
    /\ pc' = "assign_portfolio"
    /\ UNCHANGED batch_vars
    /\ UNCHANGED <<table, characteristic, weighting_scheme,
                   long_short_direction, crsp_ret_cutoffs, size_breakpoints,
                   weighting_expr, portfolio_returns, portfolio_returns_wide,
                   factor_returns, raised>>

\* The chain with the first comparison strict.
PortfolioStrictLow(r) ==
    IF r.char < r.char_p33 THEN "Low"
    ELSE IF r.char > r.char_p67 THEN "High"
    ELSE "Mid"

\* Lines 80-87: the when / then / otherwise chain.
Portfolio(r) ==
    IF r.char <= r.char_p33 THEN "Low"
    ELSE IF r.char > r.char_p67 THEN "High"
    ELSE "Mid"

AssignPortfolio ==
    /\ pc = "assign_portfolio"
    /\ char_df' = { [r EXCEPT !.portfolio = Portfolio(r)] : r \in char_df }
    /\ pc' = "select_weighting"
    /\ UNCHANGED batch_vars
    /\ UNCHANGED <<table, characteristic, weighting_scheme,
                   long_short_direction, crsp_ret_cutoffs, size_breakpoints,
                   char_breakpoints, weighting_expr, portfolio_returns,
                   portfolio_returns_wide, factor_returns, raised>>

\* Lines 89-99: the if / elif chain builds the expression, or raises.
KnownScheme(s) == s \in {"ew", "vw", "vw_cap"}

SelectWeighting ==
    /\ pc = "select_weighting"
    /\ KnownScheme(weighting_scheme)
    /\ weighting_expr' = weighting_scheme
    /\ pc' = "aggregate"
    /\ UNCHANGED batch_vars
    /\ UNCHANGED <<table, characteristic, weighting_scheme,
                   long_short_direction, char_df, crsp_ret_cutoffs,
                   size_breakpoints, char_breakpoints, portfolio_returns,
                   portfolio_returns_wide, factor_returns, raised>>

RaiseUnknownScheme ==
    /\ pc = "select_weighting"
    /\ ~KnownScheme(weighting_scheme)
    /\ raised' = "ValueError"
    /\ pc' = "raised"
    /\ UNCHANGED batch_vars
    /\ UNCHANGED <<table, characteristic, weighting_scheme,
                   long_short_direction, char_df, crsp_ret_cutoffs,
                   size_breakpoints, char_breakpoints, weighting_expr,
                   portfolio_returns, portfolio_returns_wide, factor_returns>>

\* The weights with vw_cap left uncapped.
WeightUncapped(r, expr) ==
    IF expr = "ew" THEN 1 ELSE r.me

\* Lines 90-97: the weight of a row under each expression.
Weight(r, expr) ==
    IF expr = "ew" THEN 1
    ELSE IF expr = "vw" THEN r.me
    ELSE IF r.me > r.me_p80 THEN r.me_p80 ELSE r.me

\* The expression over one (eom, portfolio) group: sum of (w / sum(w)) * ret.
PortRet(G, expr) ==
    LET P == {r.permno : r \in G}
        w == [p \in P |-> Weight(CHOOSE r \in G : r.permno = p, expr)]
        wr == [p \in P |->
                 w[p] * (CHOOSE r \in G : r.permno = p).ret_exc_lead1m]
    IN Frac(SumOver(P, wr), SumOver(P, w))

\* Lines 101-104.
PortfolioReturns(df, expr) ==
    { [eom |-> k[1], portfolio |-> k[2],
       port_ret |-> PortRet({r \in df : r.eom = k[1] /\ r.portfolio = k[2]}, expr),
       n_stocks |-> Cardinality({r \in df : r.eom = k[1] /\ r.portfolio = k[2]})] :
      k \in { <<r.eom, r.portfolio>> : r \in df } }

Aggregate ==
    /\ pc = "aggregate"
    /\ portfolio_returns' = PortfolioReturns(char_df, weighting_expr)
    /\ pc' = "pivot"
    /\ UNCHANGED batch_vars
    /\ UNCHANGED <<table, characteristic, weighting_scheme,
                   long_short_direction, char_df, crsp_ret_cutoffs,
                   size_breakpoints, char_breakpoints, weighting_expr,
                   portfolio_returns_wide, factor_returns, raised>>

\* Lines 106-108: one row per eom, one pair of columns per portfolio value
\* present in the frame; a (eom, portfolio) pair without a row gives nulls.
PivotColumns(pr) == {r.portfolio : r \in pr}

Cell(pr, m, b, col) ==
    IF \E r \in pr : r.eom = m /\ r.portfolio = b
    THEN (CHOOSE r \in pr : r.eom = m /\ r.portfolio = b)[col]
    ELSE NULL

Pivot(pr) ==
    { [eom |-> m,
       port_ret_Low |-> Cell(pr, m, "Low", "port_ret"),
       port_ret_High |-> Cell(pr, m, "High", "port_ret"),
       n_stocks_Low |-> Cell(pr, m, "Low", "n_stocks"),
       n_stocks_Mid |-> Cell(pr, m, "Mid", "n_stocks"),
       n_stocks_High |-> Cell(pr, m, "High", "n_stocks")] :
      m \in Months(pr) }

\* Lines 108-110: a null count does not pass the filter.
MinStocks == 5

\* The filter with the Mid count checked as well.
BreadthFilterAllBuckets(wide) ==
    { r \in wide : /\ r.n_stocks_Low # NULL /\ r.n_stocks_Low >= MinStocks
                   /\ r.n_stocks_Mid # NULL /\ r.n_stocks_Mid >= MinStocks
                   /\ r.n_stocks_High # NULL /\ r.n_stocks_High >= MinStocks }

BreadthFilter(wide) ==
    { r \in wide : /\ r.n_stocks_Low # NULL /\ r.n_stocks_Low >= MinStocks
                   /\ r.n_stocks_High # NULL /\ r.n_stocks_High >= MinStocks }

PivotFilter ==
    /\ pc = "pivot"
    /\ {"Low", "High"} \subseteq PivotColumns(portfolio_returns)
    /\ portfolio_returns_wide' = BreadthFilter(Pivot(portfolio_returns))
    /\ pc' = "combine"
    /\ UNCHANGED batch_vars
    /\ UNCHANGED <<table, characteristic, weighting_scheme,
                   long_short_direction, char_df, crsp_ret_cutoffs,
                   size_breakpoints, char_breakpoints, weighting_expr,
                   portfolio_returns, factor_returns, raised>>

\* The filter names n_stocks_Low and n_stocks_High: a frame in which no row
\* is Low, or none is High, has no such column.
RaiseColumnNotFound ==
    /\ pc = "pivot"
    /\ ~({"Low", "High"} \subseteq PivotColumns(portfolio_returns))
    /\ raised' = "ColumnNotFoundError"
    /\ pc' = "raised"
    /\ UNCHANGED batch_vars
    /\ UNCHANGED <<table, characteristic, weighting_scheme,
                   long_short_direction, char_df, crsp_ret_cutoffs,
                   size_breakpoints, char_breakpoints, weighting_expr,
                   portfolio_returns, portfolio_returns_wide, factor_returns>>

\* The spread taken as High - Low whatever the direction.
FactorValueHighMinusLow(r, direction) ==
    FracSub(r.port_ret_High, r.port_ret_Low)

\* Lines 112-121.
FactorValue(r, direction) ==
    IF direction = "long"
    THEN FracSub(r.port_ret_High, r.port_ret_Low)
    ELSE FracSub(r.port_ret_Low, r.port_ret_High)

Combine ==
    /\ pc = "combine"
    /\ factor_returns' =
         { [eom |-> r.eom, factor |-> FactorValue(r, long_short_direction)] :
           r \in portfolio_returns_wide }
    /\ pc' = "done"
    /\ UNCHANGED batch_vars
    /\ UNCHANGED <<table, characteristic, weighting_scheme,
                   long_short_direction, char_df, crsp_ret_cutoffs,
                   size_breakpoints, char_breakpoints, weighting_expr,
                   portfolio_returns, portfolio_returns_wide, raised>>

\* Lines 9-121 as one function of the file and the arguments: the exception
\* raised, or the returned series.
ConstructFactorPortfolio(tbl, ch, scheme, direction) ==
    LET loaded == ReadFrame(tbl)
        winsorized ==
            { WinsorizedRow(r, CrspRetCutoffs(loaded)) : r \in loaded }
        filtered == BeMeFiltered(winsorized, ch)
        sized == JoinSize(filtered, SizeBreakpointsOf(filtered))
        joined == JoinChar(sized, CharBreakpointsOf(sized))
        labeled == { [r EXCEPT !.portfolio = Portfolio(r)] : r \in joined }
        pr == PortfolioReturns(labeled, scheme)
    IN IF ~KnownScheme(scheme)
       THEN [raised |-> "ValueError", factor_returns |-> Unset]
       ELSE IF ~({"Low", "High"} \subseteq PivotColumns(pr))
       THEN [raised |-> "ColumnNotFoundError", factor_returns |-> Unset]
       ELSE [raised |-> "none",
             factor_returns |->
                 { [eom |-> r.eom, factor |-> FactorValue(r, direction)] :
                   r \in BreadthFilter(Pivot(pr)) }]

Next ==
    \/ ReadParquet
    \/ Winsorize
    \/ FilterBeMe
    \/ SizeBreakpoints
    \/ CharBreakpoints
    \/ AssignPortfolio
    \/ SelectWeighting
    \/ RaiseUnknownScheme
    \/ Aggregate
    \/ PivotFilter
    \/ RaiseColumnNotFound
    \/ Combine

SpecLabel == InitLabel /\ [][Next]_vars
SpecWinsor == InitWinsor /\ [][Next]_vars
SpecWeight == InitWeight /\ [][Next]_vars
SpecBreadth == InitBreadth /\ [][Next]_vars
SpecBeMe == InitBeMe /\ [][Next]_vars

\* ---------------------------------------------------------- validate_factor
\* validate_factor (src/src/validation.py).  A month k of a series counts
\* the months from January of StartYear (k = 1); the series' eom is the last
\* day of month k, and a date is a month and a day of that month.
StartYear == 2000

MaxMonth == 12

MonthOfYear(k) == ((k - 1) % 12) + 1
YearOf(k) == StartYear + ((k - 1) \div 12)
IsLeap(y) == (y % 4 = 0 /\ y % 100 # 0) \/ y % 400 = 0

DaysInMonth(k) ==
    IF MonthOfYear(k) = 2 THEN (IF IsLeap(YearOf(k)) THEN 29 ELSE 28)
    ELSE IF MonthOfYear(k) \in {4, 6, 9, 11} THEN 30
    ELSE 31

MonthEnd(k) == [month |-> k, day |-> DaysInMonth(k)]

\* Line 57: Expr.dt.offset_by('1mo') moves a date to the same day of the next
\* month, or to the last day of that month when it has no such day.
OffsetBy1mo(d) ==
    [month |-> d.month + 1,
     day |-> IF d.day <= DaysInMonth(d.month + 1) THEN d.day
             ELSE DaysInMonth(d.month + 1)]

\* The benchmark file that cannot be read or lacks a column.
Unreadable == {[unreadable |-> TRUE]}

\* Lines 56-66: shift the dates of the replicated series, inner join with the
\* benchmark rows on the date, drop the rows with a null.
ValidationDf(replicated, bench) ==
    LET shifted == { [eom |-> OffsetBy1mo(MonthEnd(r.eom)),
                      factor |-> r.factor] : r \in replicated }
    IN { [eom |-> r.eom, factor |-> r.factor,
          benchmark_ret |-> b.benchmark_ret] :
         <<r, b>> \in { x \in shifted \X bench :
                          /\ x[1].eom = x[2].eom
                          /\ x[2].benchmark_ret # NULL } }

\* Lines 43-98 when the benchmark loads: the joined frame, then the report.
ValidateFactor ==
    /\ pc = "validate"
    /\ caller \in {"validate", "main"}
    /\ benchmark # Unreadable
    /\ validation_df' = ValidationDf(factor_returns, benchmark)
    /\ pc' = "validated"
    /\ UNCHANGED <<table, characteristic, weighting_scheme,
                   long_short_direction, char_df, crsp_ret_cutoffs,
                   size_breakpoints, char_breakpoints, weighting_expr,
                   portfolio_returns, portfolio_returns_wide, factor_returns,
                   raised, file_columns, caller, combinations, todo, finished,
                   benchmark>>

\* Lines 43-50: an error while the benchmark is loaded is printed and the
\* function returns.
BenchmarkError ==
    /\ pc = "validate"
    /\ caller \in {"validate", "main"}
    /\ benchmark = Unreadable
    /\ pc' = "validated"
    /\ UNCHANGED <<table, characteristic, weighting_scheme,
                   long_short_direction, char_df, crsp_ret_cutoffs,
                   size_breakpoints, char_breakpoints, weighting_expr,
                   portfolio_returns, portfolio_returns_wide, factor_returns,
                   raised, file_columns, caller, combinations, todo, finished,
                   benchmark, validation_df>>

\* A benchmark file with a row for the last day of each of the months
\* 1..MaxMonth + 1, the same without the row of one month, and the same with
\* a null return in one row.
BenchmarkRows(months, nulls) ==
    { [eom |-> MonthEnd(k),
       benchmark_ret |-> IF k \in nulls THEN NULL ELSE k] : k \in months }

BenchmarkFiles ==
    { Unreadable,
      BenchmarkRows(1..(MaxMonth + 1), {}),
      BenchmarkRows((1..(MaxMonth + 1)) \ {5}, {}),
      BenchmarkRows(1..(MaxMonth + 1), {8}) }

\* The replicated series with at most two of the months 1..MaxMonth.
ReplicatedSeries ==
    { { [eom |-> k, factor |-> Frac(k, 1)] : k \in S } :
      S \in { T \in SUBSET (1..MaxMonth) : Cardinality(T) <= 2 } }

\* A direct call of validate_factor.
InitValidate ==
    /\ caller = "validate"
    /\ pc = "validate"
    /\ factor_returns \in ReplicatedSeries
    /\ benchmark \in BenchmarkFiles
    /\ validation_df = Unset
    /\ table = <<>>
    /\ file_columns = CompleteColumns
    /\ characteristic = "ret_12_1"
    /\ weighting_scheme = "ew"
    /\ long_short_direction = "long"
    /\ char_df = Unset
    /\ crsp_ret_cutoffs = Unset
    /\ size_breakpoints = Unset
    /\ char_breakpoints = Unset
    /\ weighting_expr = "unset"
    /\ portfolio_returns = Unset
    /\ portfolio_returns_wide = Unset
    /\ raised = "none"
    /\ combinations = <<>>
    /\ todo = <<>>
    /\ finished = {}

NextValidate ==
    \/ ValidateFactor
    \/ BenchmarkError

SpecValidate == InitValidate /\ [][NextValidate]_vars

\* ------------------------------------------------------------------- batch
\* The ingestion step and the replication loop of src/src/runner.py, and the
\* loop of src/main.py.
\* settings.FACTORS_TO_REPLICATE: the characteristic and the direction of
\* each factor.
FACTORS_TO_REPLICATE ==
    << [characteristic |-> "me", direction |-> "short"],
       [characteristic |-> "be_me", direction |-> "long"],
       [characteristic |-> "ope_be", direction |-> "long"],
       [characteristic |-> "at_gr1", direction |-> "short"],
       [characteristic |-> "ret_12_1", direction |-> "long"],
       [characteristic |-> "ret_1_0", direction |-> "short"] >>

\* settings.SCHEMES, in the order of the dictionary.
SCHEMES == <<"vw_cap", "ew", "vw">>

MaxFactors == 3
MaxBatchRows == 2

\* The factors of a batch: those that follow the size factor in the list
\* (the size factor sorts on me itself, which a row of the table model does
\* not hold in its characteristic column).
BatchFactors == SubSeq(FACTORS_TO_REPLICATE, 2, 1 + MaxFactors)

\* The configured schemes, and a configuration with a misspelt scheme.
SchemeLists == {SCHEMES, [SCHEMES EXCEPT ![2] = "mw"]}

\* The nested loops: for each scheme, for each factor.
Combinations(ss, fs) ==
    [k \in 1..(Len(ss) * Len(fs)) |->
        [scheme |-> ss[((k - 1) \div Len(fs)) + 1],
         characteristic |-> fs[((k - 1) % Len(fs)) + 1].characteristic,
         direction |-> fs[((k - 1) % Len(fs)) + 1].direction]]

\* The combination the loop is at.
Current == combinations[Len(combinations) - Len(todo)]

\* data_ingestion.py lines 88-90: the columns the query selects and the
\* written file holds, for the characteristics runner.py line 31 passes.
core_cols == {"eom", "id", "permno", "size_grp", "me", "ret_exc_lead1m"}

IngestedColumns ==
    LET characteristics ==
            { FACTORS_TO_REPLICATE[k].characteristic :
                k \in 1..Len(FACTORS_TO_REPLICATE) }
        unique_chars == characteristics \ core_cols
    IN core_cols \cup unique_chars

\* A row of the written file: the columns of the query only.
IngestedRow(r) ==
    [f \in (DOMAIN r) \ {"crsp_exchcd", "source_crsp"} |-> r[f]]

\* run_data_ingestion: the characteristics file is written anew.
RunDataIngestion ==
    /\ pc = "ingest"
    /\ caller = "runner"
    /\ file_columns' = IngestedColumns
    /\ table' = [i \in 1..Len(table) |-> IngestedRow(table[i])]
    /\ pc' = "loop"
    /\ UNCHANGED <<characteristic, weighting_scheme, long_short_direction,
                   char_df, crsp_ret_cutoffs, size_breakpoints,
                   char_breakpoints, weighting_expr, portfolio_returns,
                   portfolio_returns_wide, factor_returns, raised, caller,
                   combinations, todo, finished, benchmark, validation_df>>

\* runner.py lines 86-100, main.py lines 38-53: the loop takes the next
\* combination and calls construct_factor_portfolio.
StartCombination ==
    /\ pc = "loop"
    /\ todo # <<>>
    /\ weighting_scheme' = Head(todo).scheme
    /\ characteristic' = Head(todo).characteristic
    /\ long_short_direction' = Head(todo).direction
    /\ todo' = Tail(todo)
    /\ char_df' = Unset
    /\ crsp_ret_cutoffs' = Unset
    /\ size_breakpoints' = Unset
    /\ char_breakpoints' = Unset
    /\ weighting_expr' = "unset"
    /\ portfolio_returns' = Unset
    /\ portfolio_returns_wide' = Unset
    /\ factor_returns' = Unset
    /\ validation_df' = Unset
    /\ pc' = "read_parquet"
    /\ UNCHANGED <<table, raised, file_columns, caller, combinations,
                   finished, benchmark>>

\* portfolio_construction.py line 25: read_parquet is given a column the
\* file does not have.
RaiseMissingColumn ==
    /\ pc = "read_parquet"
    /\ ~(required_cols \subseteq file_columns)
    /\ raised' = "ColumnNotFoundError"
    /\ pc' = "raised"
    /\ UNCHANGED batch_vars
    /\ UNCHANGED <<table, characteristic, weighting_scheme,
                   long_short_direction, char_df, crsp_ret_cutoffs,
                   size_breakpoints, char_breakpoints, weighting_expr,
                   portfolio_returns, portfolio_returns_wide, factor_returns>>

\* runner.py lines 102-104, main.py lines 55-57: the returned series is
\* written, then validate_factor is called.
WriteParquet ==
    /\ pc = "done"
    /\ caller \in {"main", "runner"}
    /\ pc' = "validate"
    /\ UNCHANGED batch_vars
    /\ UNCHANGED <<table, characteristic, weighting_scheme,
                   long_short_direction, char_df, crsp_ret_cutoffs,
                   size_breakpoints, char_breakpoints, weighting_expr,
                   portfolio_returns, portfolio_returns_wide, factor_returns,
                   raised>>

\* runner.py lines 107-113 pass the keyword plot_subdir, which validate_factor
\* (validation.py lines 36-41) does not take: the call raises TypeError.
RaiseTypeError ==
    /\ pc = "validate"
    /\ caller = "runner"
    /\ raised' = "TypeError"
    /\ pc' = "raised"
    /\ UNCHANGED batch_vars
    /\ UNCHANGED <<table, characteristic, weighting_scheme,
                   long_short_direction, char_df, crsp_ret_cutoffs,
                   size_breakpoints, char_breakpoints, weighting_expr,
                   portfolio_returns, portfolio_returns_wide, factor_returns>>

\* main.py lines 59-63: validate_factor returned; the loop goes on.
NextCombination ==
    /\ pc = "validated"
    /\ caller = "main"
    /\ finished' = finished \cup {Current}
    /\ pc' = "loop"
    /\ UNCHANGED <<table, characteristic, weighting_scheme,
                   long_short_direction, char_df, crsp_ret_cutoffs,
                   size_breakpoints, char_breakpoints, weighting_expr,
                   portfolio_returns, portfolio_returns_wide, factor_returns,
                   raised, file_columns, caller, combinations, todo,
                   benchmark, validation_df>>

\* runner.py line 127, main.py line 65: the loops are exhausted.
Complete ==
    /\ pc = "loop"
    /\ todo = <<>>
    /\ pc' = "complete"
    /\ UNCHANGED batch_vars
    /\ UNCHANGED <<table, characteristic, weighting_scheme,
                   long_short_direction, char_df, crsp_ret_cutoffs,
                   size_breakpoints, char_breakpoints, weighting_expr,
                   portfolio_returns, portfolio_returns_wide, factor_returns,
                   raised>>

\* Neither loop has a try / except: an exception raised inside a combination
\* leaves both loops and ends the workflow.
Propagate ==
    /\ pc = "raised"
    /\ caller \in {"main", "runner"}
    /\ pc' = "aborted"
    /\ UNCHANGED batch_vars
    /\ UNCHANGED <<table, characteristic, weighting_scheme,
                   long_short_direction, char_df, crsp_ret_cutoffs,
                   size_breakpoints, char_breakpoints, weighting_expr,
                   portfolio_returns, portfolio_returns_wide, factor_returns,
                   raised>>

\* Reference-exchange rows of one month: a micro-cap with a high
\* characteristic, larger firms with a low and a negative one.
BatchRows ==
    << Row(1, 1, 1, 1, 1, 2, 3), Row(1, 1, 1, 1, 2, 0, 1),
       Row(1, 1, 1, 1, 2, 0, -1) >>

\* A run of main.py on a complete file, or of runner.py with or without the
\* ingestion step before the replication loop.
InitBatch ==
    /\ table \in Tables(BatchRows, MaxBatchRows)
    /\ file_columns = CompleteColumns
    /\ \E ss \in SchemeLists : combinations = Combinations(ss, BatchFactors)
    /\ todo = combinations
    /\ finished = {}
    /\ \/ caller = "main" /\ pc = "loop"
       \/ caller = "runner" /\ pc \in {"ingest", "loop"}
    /\ benchmark \in {Unreadable, BenchmarkRows(1..2, {})}
    /\ validation_df = Unset
    /\ characteristic = "unset"
    /\ weighting_scheme = "unset"
    /\ long_short_direction = "unset"
    /\ char_df = Unset
    /\ crsp_ret_cutoffs = Unset
    /\ size_breakpoints = Unset
    /\ char_breakpoints = Unset
    /\ weighting_expr = "unset"
    /\ portfolio_returns = Unset
    /\ portfolio_returns_wide = Unset
    /\ factor_returns = Unset
    /\ raised = "none"

NextBatch ==
    \/ Next
    \/ RunDataIngestion
    \/ StartCombination
    \/ RaiseMissingColumn
    \/ WriteParquet
    \/ ValidateFactor
    \/ BenchmarkError
    \/ RaiseTypeError
    \/ NextCombination
    \/ Complete
    \/ Propagate

SpecBatch == InitBatch /\ [][NextBatch]_vars

\* -------------------------------------------------------------- properties
\* The stages at which char_df carries the portfolio column.
Labeled ==
    pc \in {"select_weighting", "aggregate", "pivot", "combine", "done", "raised"}

\* The rows of the input file that pass the loader's screen: no null in the
\* characteristic, me, size_grp or the forward return, and a positive
\* characteristic when it is be_me.
Screened ==
    { i \in 1..Len(table) :
        /\ table[i].char # NULL
        /\ table[i].me # NULL
        /\ table[i].size_grp # NULL
        /\ table[i].ret_exc_lead1m # NULL
        /\ (characteristic = "be_me" => table[i].char > 0) }

\* The eligible rows: screened, and their month has a size and a
\* characteristic breakpoint.
Eligible ==
    { i \in Screened :
        /\ \E b \in size_breakpoints : b.eom = table[i].eom
        /\ \E b \in char_breakpoints : b.eom = table[i].eom }

Bucket(m, b) == {r.permno : r \in {x \in char_df : x.eom = m /\ x.portfolio = b}}

\* C1: once the labels are assigned, the labeled rows are exactly the eligible
\* rows; each has one label, Low if its characteristic <= char_p33 of its
\* month, High if it is > char_p67, Mid otherwise; the three buckets of a
\* month are pairwise disjoint and their union is the month's eligible set.
C1_LabelsPartition ==
    Labeled =>
        /\ {r.permno : r \in char_df} = Eligible
        /\ \A r \in char_df :
             LET b == CHOOSE x \in char_breakpoints : x.eom = r.eom
                 c == table[r.permno].char
             IN /\ r.portfolio \in {"Low", "Mid", "High"}
                /\ (c <= b.char_p33 => r.portfolio = "Low")
                /\ (c > b.char_p67 => r.portfolio = "High")
                /\ (c > b.char_p33 /\ c <= b.char_p67 => r.portfolio = "Mid")
        /\ \A m \in {table[i].eom : i \in 1..Len(table)} :
             /\ Bucket(m, "Low") \cap Bucket(m, "Mid") = {}
             /\ Bucket(m, "Low") \cap Bucket(m, "High") = {}
             /\ Bucket(m, "Mid") \cap Bucket(m, "High") = {}
             /\ Bucket(m, "Low") \cup Bucket(m, "Mid") \cup Bucket(m, "High")
                  = {i \in Eligible : table[i].eom = m}

\* A month whose two characteristic breakpoints coincide, with a firm at the
\* breakpoint (Low) and a firm above it (High), beside a row that was screened
\* out.
C1_Witness ==
    /\ pc = "select_weighting"
    /\ \E b \in char_breakpoints :
         /\ b.char_p33 = b.char_p67
         /\ \E r \in char_df :
              r.eom = b.eom /\ r.char = b.char_p33 /\ r.portfolio = "Low"
         /\ \E r \in char_df : r.eom = b.eom /\ r.portfolio = "High"
    /\ Cardinality(char_df) < Len(table)

InputMonths == {table[i].eom : i \in 1..Len(table)}

\* C2: in the returned series a month is present exactly when its Low bucket
\* and its High bucket each hold at least 5 labeled firms, whatever the Mid
\* count; and a call that ends at the count filter without a series has no
\* month with 5 Low and 5 High firms.
C2_BreadthFilter ==
    /\ pc = "done" =>
         \A m \in InputMonths :
             (m \in Months(factor_returns)) <=>
                 (Cardinality(Bucket(m, "Low")) >= 5
                    /\ Cardinality(Bucket(m, "High")) >= 5)
    /\ raised = "ColumnNotFoundError" =>
         \A m \in InputMonths :
             ~(Cardinality(Bucket(m, "Low")) >= 5
                 /\ Cardinality(Bucket(m, "High")) >= 5)

\* A returned month with 5 Low firms, 5 High firms and no Mid firm.
C2_Witness ==
    /\ pc = "done"
    /\ \E m \in Months(factor_returns) :
         /\ Bucket(m, "Mid") = {}
         /\ Cardinality(Bucket(m, "Low")) >= 5
         /\ Cardinality(Bucket(m, "High")) >= 5

\* A finished call whose only labeled month has 3 Low and 5 High firms.
C2_ThreeLowAbsent ==
    /\ pc = "done"
    /\ \E m \in InputMonths :
         /\ Cardinality(Bucket(m, "Low")) = 3
         /\ Cardinality(Bucket(m, "High")) >= 5
         /\ m \notin Months(factor_returns)

\* The stages at which char_df holds the winsorized returns.
Winsorized == pc \notin {"read_parquet", "winsorize"}

\* The rows of the input file without a null in the screened columns.
NullScreened ==
    { i \in 1..Len(table) :
        /\ table[i].char # NULL
        /\ table[i].me # NULL
        /\ table[i].size_grp # NULL
        /\ table[i].ret_exc_lead1m # NULL }

\* The loaded primary-source rows of month m, and their forward returns.
Primary(m) ==
    {i \in NullScreened : table[i].eom = m /\ table[i].source_crsp = 1}

PrimaryRet(m) == [i \in Primary(m) |-> table[i].ret_exc_lead1m]

NoPrimaryMonths ==
    { m \in InputMonths :
        \A i \in 1..Len(table) : table[i].eom = m => table[i].source_crsp # 1 }

\* C4: a month without primary-source rows has no return cutoffs, and none of
\* its rows reaches aggregation: when the per-bucket returns and counts are
\* computed the frame holds no row of the month and no bucket of the month
\* gets a return or a count.
C4_NoPrimaryMonthExcluded ==
    \A m \in NoPrimaryMonths :
        /\ crsp_ret_cutoffs # Unset => OfMonth(crsp_ret_cutoffs, m) = {}
        /\ portfolio_returns # Unset =>
             /\ OfMonth(char_df, m) = {}
             /\ OfMonth(portfolio_returns, m) = {}

\* v is the linear interpolation, at quantile q, between the two neighbouring
\* order statistics of the sample f.
IsLinearQuantile(f, q, v) ==
    LET n == Cardinality(DOMAIN f)
        pos == (n - 1) * q.num
        lo == pos \div q.den
        hi == IF lo + 1 <= n - 1 THEN lo + 1 ELSE lo
    IN v * q.den =
         OrderStat(f, lo) * q.den
           + (pos % q.den) * (OrderStat(f, hi) - OrderStat(f, lo))

\* C5: every per-month quantile is the linear interpolation between the
\* neighbouring order statistics of its sample: the return cutoffs over the
\* month's CRSP returns, the size breakpoints over its reference-exchange
\* market equities, the characteristic breakpoints over its non-micro-caps.
C5_QuantilesAreLinear ==
    /\ pc = "filter_be_me" =>
         \A c \in crsp_ret_cutoffs :
             LET f == Column({r \in char_df : r.eom = c.eom /\ r.source_crsp = 1},
                             "ret_exc_lead1m")
             IN IsLinearQuantile(f, Q001, c.ret_p001)
                  /\ IsLinearQuantile(f, Q999, c.ret_p999)
    /\ pc = "char_breakpoints" =>
         \A b \in size_breakpoints :
             LET f == Column({r \in char_df : r.eom = b.eom /\ r.crsp_exchcd = 1},
                             "me")
             IN IsLinearQuantile(f, Q20, b.me_p20)
                  /\ IsLinearQuantile(f, Q80, b.me_p80)
    /\ pc = "assign_portfolio" =>
         \A b \in char_breakpoints :
             LET f == Column({r \in char_df : r.eom = b.eom /\ r.me > r.me_p20},
                             "char")
             IN IsLinearQuantile(f, Q33, b.char_p33)
                  /\ IsLinearQuantile(f, Q67, b.char_p67)

\* The screened reference-exchange rows of month m, and their market equity.
Reference(m) ==
    {i \in Screened : table[i].eom = m /\ table[i].crsp_exchcd = 1}

ReferenceMe(m) == [i \in Reference(m) |-> table[i].me]

NoReferenceMonths == {m \in InputMonths : Reference(m) = {}}

\* C6: the size breakpoints of a month are the quantiles of the market equity
\* of its crsp_exchcd == 1 firms alone; a month without such a firm has no
\* size breakpoint row, none of its rows is in the frame from the
\* characteristic-breakpoint stage on, it has no characteristic breakpoint,
\* no bucket, and it is not in the returned series.
C6_SizeBreakpoints ==
    /\ size_breakpoints # Unset =>
         /\ \A m \in NoReferenceMonths : OfMonth(size_breakpoints, m) = {}
         /\ \A m \in InputMonths \ NoReferenceMonths :
              OfMonth(size_breakpoints, m) =
                  { [eom |-> m, me_p20 |-> Quantile(ReferenceMe(m), Q20),
                     me_p80 |-> Quantile(ReferenceMe(m), Q80)] }
    /\ pc \in {"char_breakpoints", "assign_portfolio", "select_weighting",
                "aggregate", "pivot", "combine", "done", "raised"} =>
         \A m \in NoReferenceMonths : OfMonth(char_df, m) = {}
    /\ char_breakpoints # Unset =>
         \A m \in NoReferenceMonths : OfMonth(char_breakpoints, m) = {}
    /\ portfolio_returns # Unset =>
         \A m \in NoReferenceMonths : OfMonth(portfolio_returns, m) = {}
    /\ factor_returns # Unset =>
         \A m \in NoReferenceMonths : OfMonth(factor_returns, m) = {}

\* A returned series that holds a month with reference firms and not the
\* month of the input whose firms are all of another exchange.
C6_Witness ==
    /\ pc = "done"
    /\ factor_returns # {}
    /\ NoReferenceMonths # {}
    /\ \E r \in char_df : r.crsp_exchcd # 1

\* The weight the scheme gives row r: 1, its market equity, or its market
\* equity capped at the month's me_p80.
SchemeWeight(r) ==
    LET p80 == (CHOOSE b \in size_breakpoints : b.eom = r.eom).me_p80 IN
    IF weighting_expr = "ew" THEN 1
    ELSE IF weighting_expr = "vw" THEN table[r.permno].me
    ELSE IF table[r.permno].me < p80 THEN table[r.permno].me ELSE p80

BucketRows(m, b) == {r \in char_df : r.eom = m /\ r.portfolio = b}

\* C7: portfolio_returns holds one row per non-empty (month, bucket), with the
\* bucket's constituent count and with the return sum(w * r) / sum(w) over
\* the bucket's constituents, w the weight of the scheme.
C7_WeightedReturn ==
    portfolio_returns # Unset =>
        /\ \A pr \in portfolio_returns : BucketRows(pr.eom, pr.portfolio) # {}
        /\ \A m \in InputMonths : \A b \in {"Low", "Mid", "High"} :
             LET G == BucketRows(m, b)
                 P == {r.permno : r \in G}
                 w == [p \in P |-> SchemeWeight(CHOOSE r \in G : r.permno = p)]
                 wr == [p \in P |-> w[p] *
                          (CHOOSE r \in G : r.permno = p).ret_exc_lead1m]
                 rows == {pr \in portfolio_returns :
                            pr.eom = m /\ pr.portfolio = b}
             IN G # {} =>
                  /\ Cardinality(rows) = 1
                  /\ \A pr \in rows :
                       /\ pr.n_stocks = Cardinality(G)
                       /\ pr.port_ret.den # 0
                       /\ pr.port_ret.num * SumOver(P, w)
                            = SumOver(P, wr) * pr.port_ret.den

\* Under vw_cap, a bucket with a firm below the month's me_p80 and a firm
\* above it, with different returns: the capped firm weighs me_p80.
C7_Witness ==
    /\ pc = "pivot"
    /\ weighting_expr = "vw_cap"
    /\ \E r1 \in char_df : \E r2 \in char_df :
         /\ r1.eom = r2.eom /\ r1.portfolio = r2.portfolio
         /\ r1.me < r1.me_p80 /\ r2.me > r2.me_p80
         /\ r1.ret_exc_lead1m # r2.ret_exc_lead1m
         /\ Cardinality(BucketRows(r1.eom, r1.portfolio)) = 2

\* The aggregate return of bucket b in month m.
BucketReturn(m, b) ==
    (CHOOSE pr \in portfolio_returns : pr.eom = m /\ pr.portfolio = b).port_ret

\* C8: each returned month holds one value, High return - Low return under
\* 'long' and Low return - High return, its negation, under 'short'; the
\* returned months are the months with 5 Low and 5 High firms, whatever the
\* direction.
C8_DirectionSign ==
    pc = "done" =>
        /\ Months(factor_returns) =
             { m \in InputMonths : Cardinality(Bucket(m, "Low")) >= 5
                                     /\ Cardinality(Bucket(m, "High")) >= 5 }
        /\ \A f \in factor_returns :
             LET H == BucketReturn(f.eom, "High")
                 L == BucketReturn(f.eom, "Low")
                 spread == H.num * L.den - L.num * H.den
             IN /\ Cardinality(OfMonth(factor_returns, f.eom)) = 1
                /\ f.factor.den # 0
                /\ long_short_direction = "long" =>
                     f.factor.num * (H.den * L.den) = spread * f.factor.den
                /\ long_short_direction = "short" =>
                     f.factor.num * (H.den * L.den) = (0 - spread) * f.factor.den

\* A series returned under 'short' with a month whose High return exceeds
\* its Low return: the value is negative.
C8_Witness ==
    /\ pc = "done"
    /\ long_short_direction = "short"
    /\ \E f \in factor_returns :
         /\ f.factor.num * f.factor.den < 0
         /\ BucketReturn(f.eom, "High").num * BucketReturn(f.eom, "Low").den
              > BucketReturn(f.eom, "Low").num * BucketReturn(f.eom, "High").den

\* C9: a call with an unknown weighting scheme fails before the input table
\* is read and before any winsorization, breakpoint or labeling step.
C9_UnknownSchemeFailsFirst ==
    /\ ~KnownScheme(weighting_scheme) => pc # "done"
    /\ raised = "ValueError" =>
         /\ char_df = Unset
         /\ crsp_ret_cutoffs = Unset
         /\ size_breakpoints = Unset
         /\ char_breakpoints = Unset

\* C10: a call whose direction is neither 'long' nor 'short' fails: it never
\* returns a factor series.
C10_MalformedDirectionFails ==
    long_short_direction \notin {"long", "short"} =>
        /\ pc # "done"
        /\ factor_returns = Unset

\* C11: insufficient breadth never ends a call with an exception: whatever
\* the input table, a call with a known weighting scheme returns a series
\* (possibly empty), so no such call ends with a raised exception.
C11_BreadthNeverRaises ==
    KnownScheme(weighting_scheme) => raised = "none"

\* The screened rows of month m whose market equity is strictly above the
\* month's me_p20.
AboveP20(m) ==
    { i \in Screened :
        /\ table[i].eom = m
        /\ \E b \in size_breakpoints : b.eom = m /\ table[i].me > b.me_p20 }

\* C15: every month with at least one reference-exchange firm has size
\* breakpoints with me_p20 <= me_p80, and every month with at least one
\* non-micro-cap has characteristic breakpoints with char_p33 <= char_p67.
C15_BreakpointsOrdered ==
    /\ size_breakpoints # Unset =>
         /\ \A m \in InputMonths \ NoReferenceMonths :
              OfMonth(size_breakpoints, m) # {}
         /\ \A b \in size_breakpoints : b.me_p20 <= b.me_p80
    /\ char_breakpoints # Unset =>
         /\ \A m \in InputMonths :
              AboveP20(m) # {} => OfMonth(char_breakpoints, m) # {}
         /\ \A b \in char_breakpoints : b.char_p33 <= b.char_p67

\* A month whose size breakpoints differ and whose characteristic
\* breakpoints differ.
C15_Witness ==
    /\ char_breakpoints # Unset
    /\ \E b \in size_breakpoints :
         /\ b.me_p20 < b.me_p80
         /\ \E c \in char_breakpoints : c.eom = b.eom /\ c.char_p33 < c.char_p67

CharOf(S) == [i \in S |-> table[i].char]

\* The label of input row i under the breakpoints of its month.
LabelOf(i) ==
    LET b == CHOOSE x \in char_breakpoints : x.eom = table[i].eom IN
    IF table[i].char <= b.char_p33 THEN "Low"
    ELSE IF table[i].char > b.char_p67 THEN "High"
    ELSE "Mid"

\* The eligible rows of month m with label lab, micro-caps included.
Members(m, lab) ==
    {i \in Eligible : table[i].eom = m /\ LabelOf(i) = lab}

\* The weight of input row i under the chosen expression.
WeightOf(i) ==
    LET p80 == (CHOOSE b \in size_breakpoints : b.eom = table[i].eom).me_p80 IN
    IF weighting_expr = "ew" THEN 1
    ELSE IF weighting_expr = "vw" THEN table[i].me
    ELSE IF table[i].me > p80 THEN p80 ELSE table[i].me

\* C17: the characteristic breakpoints of a month are the quantiles over its
\* firms with me strictly above me_p20 alone (a firm with me = me_p20 is not
\* in the sample, and a month without such a firm has no breakpoints), while
\* every eligible firm at or below me_p20 is labeled under those breakpoints
\* and is counted and weighted in its bucket's aggregate row.
C17_BreakpointSampleExcludesMicroCaps ==
    /\ char_breakpoints # Unset =>
         \A m \in InputMonths :
             OfMonth(char_breakpoints, m) =
                 IF AboveP20(m) = {} THEN {}
                 ELSE { [eom |-> m,
                         char_p33 |-> Quantile(CharOf(AboveP20(m)), Q33),
                         char_p67 |-> Quantile(CharOf(AboveP20(m)), Q67)] }
    /\ Labeled =>
         \A i \in Eligible :
             \E r \in char_df : r.permno = i /\ r.portfolio = LabelOf(i)
    /\ portfolio_returns # Unset =>
         \A pr \in portfolio_returns :
             LET M == Members(pr.eom, pr.portfolio)
                 w == [i \in M |-> WeightOf(i)]
                 wr == [i \in M |-> WeightOf(i) * table[i].ret_exc_lead1m]
             IN /\ pr.n_stocks = Cardinality(M)
                /\ pr.port_ret.num * SumOver(M, w)
                     = SumOver(M, wr) * pr.port_ret.den

\* An aggregated month in which a firm at me_p20 lies above char_p67 while no
\* firm of the breakpoint sample does: the High bucket holds micro-caps only
\* and its row counts them.
C17_Witness ==
    /\ pc = "pivot"
    /\ \E r \in char_df :
         /\ r.me = r.me_p20
         /\ r.portfolio = "High"
         /\ \A x \in char_df :
              x.eom = r.eom /\ x.portfolio = "High" => x.me <= x.me_p20
         /\ \E x \in char_df : x.eom = r.eom /\ x.me > x.me_p20
         /\ \E pr \in portfolio_returns :
              pr.eom = r.eom /\ pr.portfolio = "High" /\ pr.n_stocks >= 1

\* The screened primary-source rows of month m (for be_me: with a positive
\* characteristic), and their forward returns.
ScreenedPrimary(m) ==
    {i \in Screened : table[i].eom = m /\ table[i].source_crsp = 1}

ScreenedPrimaryRet(m) == [i \in ScreenedPrimary(m) |-> table[i].ret_exc_lead1m]

\* C16: when the characteristic is be_me, the rows with be_me <= 0 are removed
\* before the winsorizer: the return cutoffs of a month are the quantiles over
\* its primary-source rows with a positive be_me alone.
C16_NonPositiveRemovedBeforeWinsorizer ==
    (characteristic = "be_me" /\ crsp_ret_cutoffs # Unset) =>
        \A m \in InputMonths :
            OfMonth(crsp_ret_cutoffs, m) =
                IF ScreenedPrimary(m) = {} THEN {}
                ELSE { [eom |-> m,
                        ret_p001 |-> Quantile(ScreenedPrimaryRet(m), Q001),
                        ret_p999 |-> Quantile(ScreenedPrimaryRet(m), Q999)] }

MaxPermutedRows == 4

\* The rearrangements of an n-row file that are compared: every permutation
\* of a short file; the identity, the reversal, the rotation by one row and
\* the exchange of the first two rows of a longer one.
Rearrangements(n) ==
    IF n <= MaxPermutedRows
    THEN { p \in [1..n -> 1..n] : \A i, j \in 1..n : p[i] = p[j] => i = j }
    ELSE { [i \in 1..n |-> i], [i \in 1..n |-> n + 1 - i],
           [i \in 1..n |-> (i % n) + 1],
           [i \in 1..n |-> IF i = 1 THEN 2 ELSE IF i = 2 THEN 1 ELSE i] }

Rearranged(p) == [i \in 1..Len(table) |-> table[p[i]]]

C13_ShiftReachesNextMonthEnd ==
    (pc = "validated" /\ benchmark # Unreadable) =>
        \A r \in factor_returns : \A b \in benchmark :
            (b.eom = MonthEnd(r.eom + 1) /\ b.benchmark_ret # NULL) =>
                [eom |-> MonthEnd(r.eom + 1), factor |-> r.factor,
                 benchmark_ret |-> b.benchmark_ret] \in validation_df

\* C12: in the batch a failure of one combination does not end the batch:
\* the workflow ends, normally or not, only when every combination was
\* taken up, so none is left unprocessed because another one failed.
C12_FailureIsolated ==
    pc \in {"complete", "aborted"} => todo = <<>>

\* C18: the file written by the ingestion step has every column that
\* construct_factor_portfolio reads, so a call on that file never fails at
\* the read for a missing column.
C18_IngestedFileHasRequiredColumns ==
    file_columns = IngestedColumns =>
        ~(raised = "ColumnNotFoundError" /\ char_df = Unset)

====
